---------------------------- MODULE Spec2Model ----------------------------
(***************************************************************************)
(* Forward-chaining production system (src/production_system.py).         *)
(*                                                                         *)
(* Terms are Python strings and tuples.  A string is Str(name); a tuple   *)
(* is Tuple(<<t1, ..., tn>>).  Both are records with the same three       *)
(* fields so that any two terms can be compared, as Python's == can.      *)
(***************************************************************************)
EXTENDS Integers, Sequences, FiniteSets, TLC

VARIABLES
    start_wm,       \* the fact list the caller passes to run_ps
    rule_defs,      \* the rule list the caller passes to run_ps
    sessions,       \* the calls of run_ps the caller makes
    pc,             \* per call: "idle", "loop", "returned", "raised"
    strategy,       \* per call: the strategy argument
    rules,          \* per call: the rule objects as this call sees them
    wm,             \* per call: working memory (a list)
    fired_history,  \* per call: set of activation keys already fired
    provenance,     \* per call: dict fact -> provenance entry
    step,           \* per call: firing counter
    agenda,         \* per call: the agenda built by the last cycle
    selected,       \* per call: what select_rule returned in the last cycle
    fired_seq,      \* per call: the agenda entries fired so far, in order
    left_by,        \* per call: how the while loop was left
    result,         \* per call: what run_ps returned or raised
    probe           \* the objects a caller of unify or print_explanation holds

\* The variables of the calls of run_ps.
engine_vars == <<start_wm, rule_defs, sessions, pc, strategy, rules, wm,
                 fired_history, provenance, step, agenda, selected,
                 fired_seq, left_by, result>>

vars == <<start_wm, rule_defs, sessions, pc, strategy, rules, wm,
          fired_history, provenance, step, agenda, selected, fired_seq,
          left_by, result, probe>>

---------------------------------------------------------------------------
(* Terms *)

Str(s) == [tag |-> "str", name |-> s, args |-> <<>>]

Tuple(a) == [tag |-> "tuple", name |-> "", args |-> a]

\* The strings of the model that start with "?", in Python's string order.
VarOrder == <<"?course", "?prereq", "?s", "?secA", "?secB", "?student",
              "?u", "?x", "?y", "?z">>

VarNames == {VarOrder[i] : i \in 1..Len(VarOrder)}

is_var(term) == term.tag = "str" /\ term.name \in VarNames

\* A dict of bindings is a function from variable names to terms.
EmptyDict == [v \in {} |-> Str("")]

\* A value that is either a dict of bindings or Python's None.
Some(b) == [none |-> FALSE, env |-> b]

None == [none |-> TRUE, env |-> EmptyDict]

DictSet(b, k, v) == [x \in (DOMAIN b) \cup {k} |-> IF x = k THEN v ELSE b[x]]

---------------------------------------------------------------------------
(* Unifier *)

\* unify_var succeeding without recording a binding.
unify_var_unbound(var, val, bindings) == bindings

RECURSIVE unify(_, _, _)
RECURSIVE unify_var(_, _, _)
RECURSIVE unify_zip(_, _, _, _)

\* The loop "for p, f in zip(pattern, fact)" of unify, from position i on.
unify_zip(ps, fs, i, current_bindings) ==
    IF i > Len(ps)
    THEN current_bindings
    ELSE LET nb == unify(ps[i], fs[i], current_bindings)
         IN  IF nb.none THEN None ELSE unify_zip(ps, fs, i + 1, nb)

unify(pattern, fact, bindings) ==
    IF bindings.none THEN None
    ELSE IF pattern = fact THEN bindings
    ELSE IF is_var(pattern) THEN unify_var(pattern, fact, bindings)
    ELSE IF is_var(fact) THEN unify_var(fact, pattern, bindings)
    ELSE IF pattern.tag = "tuple" /\ fact.tag = "tuple"
         THEN IF Len(pattern.args) # Len(fact.args)
              THEN None
              ELSE unify_zip(pattern.args, fact.args, 1, bindings)
         ELSE None

unify_var(var, val, bindings) ==
    IF var = val THEN bindings
    ELSE IF var.name \in DOMAIN bindings.env
         THEN unify(bindings.env[var.name], val, bindings)
    ELSE IF is_var(val) /\ val.name \in DOMAIN bindings.env
         THEN unify(var, bindings.env[val.name], bindings)
    ELSE Some(DictSet(bindings.env, var.name, val))

\* instantiate with bindings.get(term): None for a variable not bound.
instantiate_without_default(pattern, bindings) ==
    Tuple([i \in 1..Len(pattern.args) |->
             LET term == pattern.args[i]
             IN  IF is_var(term)
                 THEN IF term.name \in DOMAIN bindings
                      THEN bindings[term.name]
                      ELSE [tag |-> "None", name |-> "", args |-> <<>>]
                 ELSE term])

instantiate(pattern, bindings) ==
    Tuple([i \in 1..Len(pattern.args) |->
             LET term == pattern.args[i]
             IN  IF is_var(term) /\ term.name \in DOMAIN bindings
                 THEN bindings[term.name]
                 ELSE term])

---------------------------------------------------------------------------
(* The unifier on dict objects.  Above, a dict is the value it holds, which *)
(* is all run_ps needs: the patterns and facts it matches are flat tuples   *)
(* of strings, whose bindings cannot form a cycle.  Here a dict is an       *)
(* object of a heap, so that a write to it is seen by whoever holds it, and *)
(* each call of unify or unify_var takes a frame of the interpreter's       *)
(* stack, which is bounded.                                                 *)

\* The number of frames unify and unify_var may take before the interpreter
\* raises RecursionError.
RecursionLimit == 24

\* What a call hands back: a dict object (its position in the heap), None,
\* or a RecursionError; with the heap as the call leaves it.
Ok(ref, heap) == [kind |-> "dict", ref |-> ref, heap |-> heap]

NoneAt(heap) == [kind |-> "None", ref |-> 0, heap |-> heap]

RecursionErrorAt(heap) == [kind |-> "RecursionError", ref |-> 0, heap |-> heap]

\* dict(bindings): a new object, at position Len(heap) + 1, with the items of
\* the object at ref.
dict_copy(ref, heap) == Append(heap, heap[ref])

RECURSIVE unify_obj(_, _, _, _, _)
RECURSIVE unify_var_obj(_, _, _, _, _)
RECURSIVE unify_zip_obj(_, _, _, _, _)

\* The loop "for p, f in zip(pattern, fact)" of unify, from position i on.
unify_zip_obj(ps, fs, i, current_bindings, depth) ==
    IF i > Len(ps)
    THEN current_bindings
    ELSE LET nb == unify_obj(ps[i], fs[i], current_bindings.ref,
                             current_bindings.heap, depth)
         IN  IF nb.kind # "dict"
             THEN nb
             ELSE unify_zip_obj(ps, fs, i + 1, nb, depth)

\* unify trying the variable case for the pattern only.
unify_obj_pattern_only(pattern, fact, ref, heap, depth) ==
    IF depth > RecursionLimit THEN RecursionErrorAt(heap)
    ELSE IF ref = 0 THEN NoneAt(heap)
    ELSE IF pattern = fact THEN Ok(ref, heap)
    ELSE IF is_var(pattern)
         THEN unify_var_obj(pattern, fact, ref, heap, depth + 1)
    ELSE IF pattern.tag = "tuple" /\ fact.tag = "tuple"
         THEN IF Len(pattern.args) # Len(fact.args)
              THEN NoneAt(heap)
              ELSE unify_zip_obj(pattern.args, fact.args, 1,
                                 Ok(Len(heap) + 1, dict_copy(ref, heap)),
                                 depth + 1)
         ELSE NoneAt(heap)

\* unify(pattern, fact, bindings), bindings being the object at ref (0 for
\* None), called at stack depth depth.
unify_obj(pattern, fact, ref, heap, depth) ==
    IF depth > RecursionLimit THEN RecursionErrorAt(heap)
    ELSE IF ref = 0 THEN NoneAt(heap)
    ELSE IF pattern = fact THEN Ok(ref, heap)
    ELSE IF is_var(pattern)
         THEN unify_var_obj(pattern, fact, ref, heap, depth + 1)
    ELSE IF is_var(fact)
         THEN unify_var_obj(fact, pattern, ref, heap, depth + 1)
    ELSE IF pattern.tag = "tuple" /\ fact.tag = "tuple"
         THEN IF Len(pattern.args) # Len(fact.args)
              THEN NoneAt(heap)
              ELSE unify_zip_obj(pattern.args, fact.args, 1,
                                 Ok(Len(heap) + 1, dict_copy(ref, heap)),
                                 depth + 1)
         ELSE NoneAt(heap)

\* unify_var writing the binding into the dict it was given.
unify_var_obj_in_place(var, val, ref, heap, depth) ==
    IF depth > RecursionLimit THEN RecursionErrorAt(heap)
    ELSE IF var = val THEN Ok(ref, heap)
    ELSE IF var.name \in DOMAIN heap[ref]
         THEN unify_obj(heap[ref][var.name], val, ref, heap, depth + 1)
    ELSE IF is_var(val) /\ val.name \in DOMAIN heap[ref]
         THEN unify_obj(var, heap[ref][val.name], ref, heap, depth + 1)
    ELSE Ok(ref, [heap EXCEPT ![ref] = DictSet(@, var.name, val)])

\* unify_var(var, val, bindings), bindings being the object at ref.
unify_var_obj(var, val, ref, heap, depth) ==
    IF depth > RecursionLimit THEN RecursionErrorAt(heap)
    ELSE IF var = val THEN Ok(ref, heap)
    ELSE IF var.name \in DOMAIN heap[ref]
         THEN unify_obj(heap[ref][var.name], val, ref, heap, depth + 1)
    ELSE IF is_var(val) /\ val.name \in DOMAIN heap[ref]
         THEN unify_obj(var, heap[ref][val.name], ref, heap, depth + 1)
    ELSE Ok(Len(heap) + 1,
            [dict_copy(ref, heap) EXCEPT
                ![Len(heap) + 1] = DictSet(@, var.name, val)])

---------------------------------------------------------------------------
(* Rules and matching *)

\* A Rule object.  obj stands for the object's identity (its address).
Rule(obj, name, lhs, rhs, priority) ==
    [obj |-> obj, name |-> name, lhs |-> lhs, rhs |-> rhs,
     priority |-> priority]

RECURSIVE match_rules(_, _, _, _)
RECURSIVE match_facts(_, _, _, _, _)

\* match_facts passing over the facts that already support the match.
match_facts_distinct(lhs, mem, bindings, supports, k) ==
    IF k > Len(mem)
    THEN <<>>
    ELSE LET new_bindings == unify(Head(lhs), mem[k], Some(bindings))
         IN  (IF new_bindings.none
                 \/ \E i \in 1..Len(supports) : supports[i] = mem[k]
              THEN <<>>
              ELSE match_rules(Tail(lhs), mem, new_bindings.env,
                               Append(supports, mem[k])))
             \o match_facts(lhs, mem, bindings, supports, k + 1)

\* The loop "for fact in wm" of match_rules, from position k on.
match_facts(lhs, mem, bindings, supports, k) ==
    IF k > Len(mem)
    THEN <<>>
    ELSE LET new_bindings == unify(Head(lhs), mem[k], Some(bindings))
         IN  (IF new_bindings.none
              THEN <<>>
              ELSE match_rules(Tail(lhs), mem, new_bindings.env,
                               Append(supports, mem[k])))
             \o match_facts(lhs, mem, bindings, supports, k + 1)

match_rules(lhs, mem, bindings, supports) ==
    IF Len(lhs) = 0
    THEN << [bindings |-> bindings, supports |-> supports] >>
    ELSE match_facts(lhs, mem, bindings, supports, 1)

\* id(rule)
id(rule) == rule.obj

\* sorted(bindings.items()): the (variable, value) pairs in the order of the
\* variable names.
RECURSIVE sorted_items(_, _)
sorted_items(bindings, i) ==
    IF i > Len(VarOrder)
    THEN <<>>
    ELSE (IF VarOrder[i] \in DOMAIN bindings
          THEN << <<VarOrder[i], bindings[VarOrder[i]]>> >>
          ELSE <<>>)
         \o sorted_items(bindings, i + 1)

\* get_activation_key leaving the bindings out of the key.
get_activation_key_by_rule(rule, bindings) == <<id(rule), <<>> >>

get_activation_key(rule, bindings) == <<id(rule), sorted_items(bindings, 1)>>

---------------------------------------------------------------------------
(* Conflict resolution *)

\* Python's order on tuples of integers of the same length: a < b.
RECURSIVE tuple_less_from(_, _, _)
tuple_less_from(a, b, i) ==
    IF i > Len(a) THEN FALSE
    ELSE IF a[i] # b[i] THEN a[i] < b[i]
    ELSE tuple_less_from(a, b, i + 1)

tuple_less(a, b) == tuple_less_from(a, b, 1)

\* py_max keeping the last of the items with the greatest key.
RECURSIVE py_max_last(_, _, _)
py_max_last(keys, lo, hi) ==
    IF lo = hi THEN lo
    ELSE LET mid == (lo + hi) \div 2
             a == py_max_last(keys, lo, mid)
             b == py_max_last(keys, mid + 1, hi)
         IN  IF tuple_less(keys[b], keys[a]) THEN a ELSE b

\* py_min keeping the last of the items with the least key.
RECURSIVE py_min_last(_, _, _)
py_min_last(keys, lo, hi) ==
    IF lo = hi THEN lo
    ELSE LET mid == (lo + hi) \div 2
             a == py_min_last(keys, lo, mid)
             b == py_min_last(keys, mid + 1, hi)
         IN  IF tuple_less(keys[a], keys[b]) THEN a ELSE b

\* max(items, key=...) over the items at positions lo..hi: the position of
\* the first item whose key no other exceeds; keys[i] is the key of item i.
\* A later item replaces an earlier one only if its key is greater.
RECURSIVE py_max(_, _, _)
py_max(keys, lo, hi) ==
    IF lo = hi THEN lo
    ELSE LET mid == (lo + hi) \div 2
             a == py_max(keys, lo, mid)
             b == py_max(keys, mid + 1, hi)
         IN  IF tuple_less(keys[a], keys[b]) THEN b ELSE a

\* min(items, key=...) over the items at positions lo..hi: the position of
\* the first item with the least key.
RECURSIVE py_min(_, _, _)
py_min(keys, lo, hi) ==
    IF lo = hi THEN lo
    ELSE LET mid == (lo + hi) \div 2
             a == py_min(keys, lo, mid)
             b == py_min(keys, mid + 1, hi)
         IN  IF tuple_less(keys[b], keys[a]) THEN b ELSE a

\* What select_rule returns: an agenda item, or Python's None.
Item(x) == [none |-> FALSE, item |-> x]

NoItem == [none |-> TRUE]

\* priority_key breaking ties by the rule object's address.
priority_key_by_address(x) ==
    <<x.rule.priority, Len(x.rule.lhs), 0 - x.rule.obj>>

priority_key(x) == <<x.rule.priority, Len(x.rule.lhs), -x.index>>

specificity_key(x) == <<Len(x.rule.lhs), x.rule.priority, -x.index>>

order_key(x) == <<x.index>>

select_rule(ag, strat) ==
    IF Len(ag) = 0 THEN NoItem
    ELSE IF strat = "priority"
         THEN Item(ag[py_max([i \in 1..Len(ag) |-> priority_key(ag[i])], 1, Len(ag))])
    ELSE IF strat = "specificity"
         THEN Item(ag[py_max([i \in 1..Len(ag) |-> specificity_key(ag[i])], 1, Len(ag))])
    ELSE IF strat = "order"
         THEN Item(ag[py_min([i \in 1..Len(ag) |-> order_key(ag[i])], 1, Len(ag))])
    ELSE NoItem

---------------------------------------------------------------------------
(* The engine: one cycle of run_ps *)

max_steps == 100

Range(seq) == {seq[i] : i \in 1..Len(seq)}

\* new_activations without the refraction filter.
new_activations_unfiltered(r, i, mem, fired) ==
    LET matches == match_rules(r.lhs, mem, EmptyDict, <<>>)
    IN  [k \in 1..Len(matches) |->
            [rule |-> r, bindings |-> matches[k].bindings,
             supports |-> matches[k].supports, index |-> i,
             key |-> get_activation_key(r, matches[k].bindings)]]

\* new_activations recording no supports.
new_activations_without_supports(r, i, mem, fired) ==
    LET matches == match_rules(r.lhs, mem, EmptyDict, <<>>)
        entry(m) == [rule |-> r, bindings |-> m.bindings,
                     supports |-> <<>>, index |-> i,
                     key |-> get_activation_key(r, m.bindings)]
        all == [k \in 1..Len(matches) |-> entry(matches[k])]
        fresh(x) == x.key \notin fired
    IN  SelectSeq(all, fresh)

\* The activations of rule r (declared at index i) that have not fired.
new_activations(r, i, mem, fired) ==
    LET matches == match_rules(r.lhs, mem, EmptyDict, <<>>)
        entry(m) == [rule |-> r, bindings |-> m.bindings,
                     supports |-> m.supports, index |-> i,
                     key |-> get_activation_key(r, m.bindings)]
        all == [k \in 1..Len(matches) |-> entry(matches[k])]
        fresh(x) == x.key \notin fired
    IN  SelectSeq(all, fresh)

\* build_agenda matching against an empty fired history.
RECURSIVE build_agenda_ignoring_history(_, _, _, _)
build_agenda_ignoring_history(rs, mem, fired, k) ==
    IF k > Len(rs) THEN <<>>
    ELSE new_activations(rs[k], k - 1, mem, {})
         \o build_agenda_ignoring_history(rs, mem, fired, k + 1)

\* The loop "for i, r in enumerate(rules)" of run_ps, from position k on.
RECURSIVE build_agenda(_, _, _, _)
build_agenda(rs, mem, fired, k) ==
    IF k > Len(rs) THEN <<>>
    ELSE new_activations(rs[k], k - 1, mem, fired)
         \o build_agenda(rs, mem, fired, k + 1)

given_entry ==
    [type |-> "given", rule |-> "", bindings |-> EmptyDict, supports |-> <<>>]

inferred_entry(rule, bindings, supports) ==
    [type |-> "inferred", rule |-> rule.name, bindings |-> bindings,
     supports |-> supports]

\* act without the test "new_fact not in wm".
RECURSIVE act_always_append(_, _, _)
act_always_append(x, k, st) ==
    IF k > Len(x.rule.rhs) THEN st
    ELSE act_always_append(x, k + 1,
             [wm |-> Append(st.wm, instantiate(x.rule.rhs[k], x.bindings)),
              provenance |->
                  DictSet(st.provenance,
                          instantiate(x.rule.rhs[k], x.bindings),
                          inferred_entry(x.rule, x.bindings, x.supports))])

\* act putting a new fact at the front of working memory.
RECURSIVE act_prepend(_, _, _)
act_prepend(x, k, st) ==
    IF k > Len(x.rule.rhs) THEN st
    ELSE LET new_fact == instantiate(x.rule.rhs[k], x.bindings)
         IN  act_prepend(x, k + 1,
                 IF new_fact \in Range(st.wm)
                 THEN st
                 ELSE [wm |-> <<new_fact>> \o st.wm,
                       provenance |->
                           DictSet(st.provenance, new_fact,
                                   inferred_entry(x.rule, x.bindings,
                                                  x.supports))])

\* act writing the provenance entry also when the fact is already present.
RECURSIVE act_overwrite(_, _, _)
act_overwrite(x, k, st) ==
    IF k > Len(x.rule.rhs) THEN st
    ELSE LET new_fact == instantiate(x.rule.rhs[k], x.bindings)
         IN  act_overwrite(x, k + 1,
                 [wm |-> IF new_fact \in Range(st.wm)
                         THEN st.wm
                         ELSE Append(st.wm, new_fact),
                  provenance |->
                      DictSet(st.provenance, new_fact,
                              inferred_entry(x.rule, x.bindings,
                                             x.supports))])

\* The loop "for rhs_pattern in rule.rhs" of run_ps, from position k on;
\* st is the pair of working memory and provenance.
RECURSIVE act(_, _, _)
act(x, k, st) ==
    IF k > Len(x.rule.rhs) THEN st
    ELSE LET new_fact == instantiate(x.rule.rhs[k], x.bindings)
         IN  act(x, k + 1,
                 IF new_fact \in Range(st.wm)
                 THEN st
                 ELSE [wm |-> Append(st.wm, new_fact),
                       provenance |->
                           DictSet(st.provenance, new_fact,
                                   inferred_entry(x.rule, x.bindings,
                                                  x.supports))])

---------------------------------------------------------------------------
(* Inputs: fact lists and rule lists a caller can pass to run_ps *)

Fact2(p, a) == Tuple(<<Str(p), Str(a)>>)

Fact3(p, a, b) == Tuple(<<Str(p), Str(a), Str(b)>>)

\* RULE SET 2 of run_tests.
provenance_rules == <<
    Rule(1, "risk-from-credit-overload",
         <<Fact2("credit-overload", "?s")>>,
         <<Fact2("needs-advisor-review", "?s")>>, 6),
    Rule(2, "risk-from-probation",
         <<Fact2("academic-probation", "?s")>>,
         <<Fact2("needs-advisor-review", "?s")>>, 9),
    Rule(3, "specific-risk-combo",
         <<Fact2("credit-overload", "?s"), Fact2("has-time-conflict", "?s")>>,
         <<Fact2("needs-advisor-review", "?s")>>, 7),
    Rule(4, "risk-from-time-conflict",
         <<Fact2("has-time-conflict", "?s")>>,
         <<Fact2("needs-advisor-review", "?s")>>, 6),
    Rule(5, "create-hold-after-review",
         <<Fact2("needs-advisor-review", "?s")>>,
         <<Fact2("registration-hold", "?s")>>, 5) >>

wm_prov == <<Fact2("credit-overload", "Bob"),
             Fact2("academic-probation", "Bob"),
             Fact2("has-time-conflict", "Bob")>>

\* RULE SET 1 of run_tests.
enrollment_rules == <<
    Rule(6, "graduate-only-course-restriction",
         <<Fact2("graduate-only", "?course"),
           Fact2("not-graduate-student", "?student")>>,
         <<Fact3("cannot-enroll-course", "?student", "?course")>>, 7),
    Rule(7, "missing-prerequisite-prevents-enrollment",
         <<Fact3("course-prerequisite", "?course", "?prereq"),
           Fact3("not-completed", "?student", "?prereq"),
           Fact3("no-waiver", "?student", "?prereq")>>,
         <<Fact3("cannot-enroll-course", "?student", "?course")>>, 8),
    Rule(8, "credit-limit-prevents-enrollment",
         <<Fact3("would-exceed-credit-limit", "?student", "?course")>>,
         <<Fact3("cannot-enroll-course", "?student", "?course")>>, 6),
    Rule(9, "time-conflict-prevents-enrollment",
         <<Fact3("enrolled-in", "?student", "?secA"),
           Fact3("request-section", "?student", "?secB"),
           Fact3("section-overlap", "?secA", "?secB")>>,
         <<Fact3("cannot-enroll-section", "?student", "?secB")>>, 5) >>

wm_enrollment == <<Fact2("graduate-only", "CS500"),
                   Fact2("not-graduate-student", "Alice"),
                   Fact3("course-prerequisite", "CS500", "CS400"),
                   Fact3("not-completed", "Alice", "CS400"),
                   Fact3("no-waiver", "Alice", "CS400"),
                   Fact3("would-exceed-credit-limit", "Alice", "CS500"),
                   Fact3("enrolled-in", "Alice", "SEC001"),
                   Fact3("request-section", "Alice", "SEC010"),
                   Fact3("section-overlap", "SEC001", "SEC010")>>

\* A rule base with more distinct activations than max_steps: every
\* consequent variable is bound by the antecedent, the constants are finite.
trio_rules == <<
    Rule(10, "study-trio",
         <<Fact2("student", "?x"), Fact2("student", "?y"),
           Fact2("student", "?z")>>,
         <<Fact2("in-trio", "?x")>>, 1) >>

wm_trio == <<Fact2("student", "S1"), Fact2("student", "S2"),
             Fact2("student", "S3"), Fact2("student", "S4"),
             Fact2("student", "S5")>>

\* A rule whose consequent has a variable the antecedent does not bind, and
\* a second consequent.
flag_rules == <<
    Rule(11, "flag-overload",
         <<Fact2("credit-overload", "?s")>>,
         <<Fact3("flagged", "?s", "?u"),
           Fact2("needs-advisor-review", "?s")>>, 6),
    provenance_rules[5] >>

\* A fact list that names one fact twice and holds a conclusion already.
wm_repeat == <<Fact2("credit-overload", "Bob"),
               Fact2("needs-advisor-review", "Bob"),
               Fact2("credit-overload", "Bob")>>

\* The first rule of RULE SET 1 alone, with one course and one student.
carol_rules == << enrollment_rules[1] >>

wm_carol == <<Fact2("graduate-only", "CS550"),
              Fact2("not-graduate-student", "Carol")>>

\* A rule without conditions before a rule with two.
open_term_rules == <<
    Rule(12, "open-term", <<>>, <<Fact2("term", "open")>>, 1),
    enrollment_rules[1] >>

Input(f, r) == [facts |-> f, rules |-> r]

NamedInputs ==
    { Input(wm_prov, provenance_rules),
      Input(wm_enrollment, enrollment_rules),
      Input(wm_trio, trio_rules),
      Input(wm_prov, flag_rules),
      Input(wm_repeat, provenance_rules),
      Input(wm_carol, carol_rules),
      Input(wm_carol, open_term_rules) }

\* Bounds of the generated inputs.
MaxStartFacts == 3

MaxRules == 2

FactPool == <<Fact2("credit-overload", "Bob"),
              Fact2("academic-probation", "Bob"),
              Fact2("has-time-conflict", "Bob"),
              Fact2("credit-overload", "Ann"),
              Fact2("needs-advisor-review", "Bob")>>

RulePool == <<provenance_rules[1], provenance_rules[2],
              provenance_rules[3], provenance_rules[5]>>

\* The strictly increasing sequences of positions 1..n, at most m long.
Picks(n, m) ==
    UNION { {p \in [1..k -> 1..n] : \A i \in 1..(k - 1) : p[i] < p[i + 1]}
            : k \in 0..m }

\* All sequences of positions 1..n, at most m long.
Lists(n, m) == UNION { [1..k -> 1..n] : k \in 0..m }

GeneratedInputs ==
    { Input([i \in 1..Len(p) |-> FactPool[p[i]]],
            [i \in 1..Len(q) |-> RulePool[q[i]]])
      : p \in Picks(Len(FactPool), MaxStartFacts),
        q \in Lists(Len(RulePool), MaxRules) }

Inputs == NamedInputs \cup GeneratedInputs

Strategies == {"priority", "specificity", "order", "recency"}

KnownStrategies == {"priority", "specificity", "order"}

Sessions == {1, 2}

\* Where a call finds the caller's rule objects: the first call at their
\* addresses, a later call at the same addresses or, the list having been
\* built again, at other ones.
HeapBase == 64

Layouts(s) == IF s = 1 THEN {0} ELSE {0, HeapBase}

Relocate(rs, base) ==
    [i \in 1..Len(rs) |->
        [rs[i] EXCEPT !.obj = IF base = 0 THEN @ ELSE base - @]]

---------------------------------------------------------------------------
(* run_ps as a state machine: one action per way through the loop *)

NoResult == [kind |-> "none", wm |-> <<>>, provenance |-> EmptyDict,
             exc |-> ""]

Returned(mem, prov) == [kind |-> "returned", wm |-> mem,
                        provenance |-> prov, exc |-> ""]

Raised(e) == [kind |-> "raised", wm |-> <<>>, provenance |-> EmptyDict,
              exc |-> e]

InitCalls ==
    /\ pc = [s \in Sessions |-> "idle"]
    /\ strategy = [s \in Sessions |-> ""]
    /\ rules = [s \in Sessions |-> <<>>]
    /\ wm = [s \in Sessions |-> <<>>]
    /\ fired_history = [s \in Sessions |-> {}]
    /\ provenance = [s \in Sessions |-> EmptyDict]
    /\ step = [s \in Sessions |-> 0]
    /\ agenda = [s \in Sessions |-> <<>>]
    /\ selected = [s \in Sessions |-> NoItem]
    /\ fired_seq = [s \in Sessions |-> <<>>]
    /\ left_by = [s \in Sessions |-> ""]
    /\ result = [s \in Sessions |-> NoResult]

\* No caller of unify or print_explanation other than run_ps.
NoProbe == [kind |-> "none"]

Init ==
    /\ \E inp \in Inputs : start_wm = inp.facts /\ rule_defs = inp.rules
    /\ sessions = {1}
    /\ InitCalls
    /\ probe = NoProbe

\* run_ps is entered: lines 165-174.
Call(s) ==
    /\ s \in sessions
    /\ pc[s] = "idle"
    /\ \E strat \in Strategies, base \in Layouts(s) :
          /\ strategy' = [strategy EXCEPT ![s] = strat]
          /\ rules' = [rules EXCEPT ![s] = Relocate(rule_defs, base)]
    /\ wm' = [wm EXCEPT ![s] = start_wm]
    /\ fired_history' = [fired_history EXCEPT ![s] = {}]
    /\ provenance' = [provenance EXCEPT
                        ![s] = [f \in Range(start_wm) |-> given_entry]]
    /\ step' = [step EXCEPT ![s] = 0]
    /\ pc' = [pc EXCEPT ![s] = "loop"]
    /\ UNCHANGED <<start_wm, rule_defs, sessions, agenda, selected,
                   fired_seq, left_by, result,
                   probe>>

\* The agenda the cycle builds: lines 184-208.
cycle_agenda(s) == build_agenda(rules[s], wm[s], fired_history[s], 1)

\* A cycle whose agenda is empty: break, then return (lines 210-212, 246).
Halt(s) ==
    /\ pc[s] = "loop"
    /\ step[s] < max_steps
    /\ Len(cycle_agenda(s)) = 0
    /\ agenda' = [agenda EXCEPT ![s] = <<>>]
    /\ left_by' = [left_by EXCEPT ![s] = "break"]
    /\ pc' = [pc EXCEPT ![s] = "returned"]
    /\ result' = [result EXCEPT ![s] = Returned(wm[s], provenance[s])]
    /\ UNCHANGED <<start_wm, rule_defs, sessions, strategy, rules, wm,
                   fired_history, provenance, step, selected, fired_seq,
                   probe>>

\* wm naming the caller's list itself: the appends reach the caller's list.
caller_facts_aliased(mem) == mem

\* The caller's fact list after the appends of line 233 have made working
\* memory mem: wm is the copy made by list(start_wm) at line 166, another
\* object than the caller's list, which keeps its items.
caller_facts_after(mem) == start_wm

\* Fire recording the key only when the firing added a fact.
Fire_recording_additions(s) ==
    /\ pc[s] = "loop"
    /\ step[s] < max_steps
    /\ \E ag \in {cycle_agenda(s)} :
          /\ Len(ag) > 0
          /\ \E sel \in {select_rule(ag, strategy[s])} :
                /\ ~sel.none
                /\ agenda' = [agenda EXCEPT ![s] = ag]
                /\ selected' = [selected EXCEPT ![s] = sel]
                /\ fired_seq' = [fired_seq EXCEPT ![s] = Append(@, sel.item)]
                /\ step' = [step EXCEPT ![s] = @ + 1]
                /\ \E st \in {act(sel.item, 1,
                                  [wm |-> wm[s],
                                   provenance |-> provenance[s]])} :
                      /\ wm' = [wm EXCEPT ![s] = st.wm]
                      /\ provenance' = [provenance EXCEPT
                                          ![s] = st.provenance]
                      /\ start_wm' = caller_facts_after(st.wm)
                      /\ fired_history' =
                            [fired_history EXCEPT
                                ![s] = IF st.wm = wm[s]
                                       THEN @
                                       ELSE @ \cup {sel.item.key}]
    /\ UNCHANGED <<rule_defs, sessions, pc, strategy, rules, left_by,
                   result, probe>>

\* A cycle that selects and fires an activation: lines 176-244.
Fire(s) ==
    /\ pc[s] = "loop"
    /\ step[s] < max_steps
    /\ \E ag \in {cycle_agenda(s)} :
          /\ Len(ag) > 0
          /\ \E sel \in {select_rule(ag, strategy[s])} :
                /\ ~sel.none
                /\ agenda' = [agenda EXCEPT ![s] = ag]
                /\ selected' = [selected EXCEPT ![s] = sel]
                /\ fired_history' = [fired_history EXCEPT
                                       ![s] = @ \cup {sel.item.key}]
                /\ fired_seq' = [fired_seq EXCEPT ![s] = Append(@, sel.item)]
                /\ step' = [step EXCEPT ![s] = @ + 1]
                /\ \E st \in {act(sel.item, 1,
                                  [wm |-> wm[s],
                                   provenance |-> provenance[s]])} :
                      /\ wm' = [wm EXCEPT ![s] = st.wm]
                      /\ provenance' = [provenance EXCEPT
                                          ![s] = st.provenance]
                      /\ start_wm' = caller_facts_after(st.wm)
    /\ UNCHANGED <<rule_defs, sessions, pc, strategy, rules, left_by,
                   result,
                   probe>>

\* A cycle in which select_rule returns None for a non-empty agenda: the
\* unpacking at line 216 raises TypeError and run_ps is left by it.
Crash(s) ==
    /\ pc[s] = "loop"
    /\ step[s] < max_steps
    /\ \E ag \in {cycle_agenda(s)} :
          /\ Len(ag) > 0
          /\ \E sel \in {select_rule(ag, strategy[s])} :
                /\ sel.none
                /\ agenda' = [agenda EXCEPT ![s] = ag]
                /\ selected' = [selected EXCEPT ![s] = sel]
    /\ pc' = [pc EXCEPT ![s] = "raised"]
    /\ result' = [result EXCEPT ![s] = Raised("TypeError")]
    /\ UNCHANGED <<start_wm, rule_defs, sessions, strategy, rules, wm,
                   fired_history, provenance, step, fired_seq, left_by,
                   probe>>

\* The while condition fails: step has reached max_steps (lines 176, 246).
StepLimit(s) ==
    /\ pc[s] = "loop"
    /\ step[s] >= max_steps
    /\ left_by' = [left_by EXCEPT ![s] = "while"]
    /\ pc' = [pc EXCEPT ![s] = "returned"]
    /\ result' = [result EXCEPT ![s] = Returned(wm[s], provenance[s])]
    /\ UNCHANGED <<start_wm, rule_defs, sessions, strategy, rules, wm,
                   fired_history, provenance, step, agenda, selected,
                   fired_seq,
                   probe>>

Next ==
    \E s \in Sessions :
        \/ Call(s)
        \/ Halt(s)
        \/ Fire(s)
        \/ Crash(s)
        \/ StepLimit(s)

Spec == Init /\ [][Next]_vars

\* The caller runs run_ps twice on the same fact list and rule list, the
\* two calls interleaved cycle by cycle.  The input with the hundred-cycle
\* run is run once.
InitTwo ==
    /\ \E inp \in NamedInputs :
          /\ start_wm = inp.facts
          /\ rule_defs = inp.rules
          /\ sessions = IF inp.rules = trio_rules THEN {1} ELSE Sessions
    /\ InitCalls
    /\ probe = NoProbe

SpecTwo == InitTwo /\ [][Next]_vars

---------------------------------------------------------------------------
(* A caller of unify that keeps one environment and unifies pairs of terms *)
(* in it, taking the returned environment as its own when unify succeeds.  *)

Constants == {Str("a"), Str("b")}

Variables == {Str("?x"), Str("?y")}

Atoms == Constants \cup Variables

\* The lengths of the tuples the caller builds from atoms.
TupleLens == {1, 2}

FlatTuples == UNION { {Tuple(a) : a \in [1..n -> Atoms]} : n \in TupleLens }

\* Tuples that hold a tuple.
NestedTuples ==
    { Tuple(<<Tuple(<<Str("?x")>>)>>),
      Tuple(<<Tuple(<<Str("?y")>>)>>),
      Tuple(<<Tuple(<<Str("a")>>)>>),
      Tuple(<<Str("?x"), Tuple(<<Str("?y")>>)>>),
      Tuple(<<Str("?y"), Tuple(<<Str("?x")>>)>>),
      Tuple(<<Str("a"), Tuple(<<Str("?x")>>)>>) }

Terms == Atoms \cup FlatTuples \cup NestedTuples

\* unify(pattern, fact, E) called by a caller that holds the dict E alone.
CallUnify(pattern, fact, E) == unify_obj(pattern, fact, 1, <<E>>, 1)

InitUnify ==
    /\ start_wm = <<>>
    /\ rule_defs = <<>>
    /\ sessions = {}
    /\ InitCalls
    /\ probe = [kind |-> "unify", env |-> EmptyDict]

\* The caller unifies two terms in its environment.  Afterwards it holds
\* the dict returned, or, unify having returned None or raised, the dict it
\* passed, with the items that dict has then.
Unify ==
    /\ probe.kind = "unify"
    /\ \E pattern, fact \in Terms :
          \E r \in {CallUnify(pattern, fact, probe.env)} :
             probe' = [probe EXCEPT
                          !.env = IF r.kind = "dict"
                                  THEN r.heap[r.ref]
                                  ELSE r.heap[1]]
    /\ UNCHANGED engine_vars

NextUnify == Unify

SpecUnify == InitUnify /\ [][NextUnify]_vars

---------------------------------------------------------------------------
(* print_explanation as a state machine.  probe.stack holds one frame for  *)
(* each call in progress: the call's fact, its indent and the position i   *)
(* in data['supports'] it will visit next (0 before the call's first       *)
(* statement).  probe.printed is the set object all the calls share and    *)
(* probe.out the lines printed.                                            *)

ExplainFacts == {Fact2("f", "1"), Fact2("f", "2"), Fact2("f", "3")}

\* The longest support list of the provenance maps passed.
MaxSupports == 2

SupportLists == UNION { [1..n -> ExplainFacts] : n \in 0..MaxSupports }

ExplainRule == Rule(20, "r", <<>>, <<>>, 0)

\* The entries a provenance map can hold for a fact.
Entries ==
    {given_entry}
    \cup {inferred_entry(ExplainRule, EmptyDict, sup) : sup \in SupportLists}

\* The facts of history h whose entry is not 'given'.
InferredIn(h) == {f \in DOMAIN h : h[f].type # "given"}

\* The number of supports the entries of the facts fs list in history h.
RECURSIVE SumSupports(_, _)
SumSupports(h, fs) ==
    IF fs = {} THEN 0
    ELSE LET f == CHOOSE x \in fs : TRUE
         IN  Len(h[f].supports) + SumSupports(h, fs \ {f})

\* The most supports a provenance map passed lists in all.
MaxLinks == 4

\* The provenance maps passed as history: any entries for any of the facts,
\* so that supports can be shared, missing from the map, or lie on a cycle.
Histories ==
    { h \in UNION { [D -> Entries] : D \in SUBSET ExplainFacts } :
        SumSupports(h, InferredIn(h)) <= MaxLinks }

Frame(fact, indent, i) == [fact |-> fact, indent |-> indent, i |-> i]

Line(indent, fact, text) == [indent |-> indent, fact |-> fact, text |-> text]

InitExplain ==
    /\ start_wm = <<>>
    /\ rule_defs = <<>>
    /\ sessions = {}
    /\ InitCalls
    /\ \E h \in Histories, fact \in ExplainFacts :
          probe = [kind |-> "explain", history |-> h, query |-> fact,
                   stack |-> <<Frame(fact, 0, 0)>>, printed |-> {},
                   out |-> <<>>, steps |-> 0]

\* The frame of the innermost call.
Top == probe.stack[Len(probe.stack)]

\* The stack after the innermost call has returned.
Popped == SubSeq(probe.stack, 1, Len(probe.stack) - 1)

\* The test of line 144 with no fact ever found in printed.
visited_never(fact, printed) == FALSE

\* fact in printed (line 144).
visited(fact, printed) == fact \in printed

\* A call begins: one of the four ways through lines 139-159.
Entering ==
    /\ probe.kind = "explain"
    /\ Len(probe.stack) > 0
    /\ Top.i = 0

\* Lines 144-146: the fact is in printed.
ExplainSeeAbove ==
    /\ Entering
    /\ visited(Top.fact, probe.printed)
    /\ probe' = [probe EXCEPT
                    !.out = Append(@, Line(Top.indent, Top.fact, "see above")),
                    !.stack = Popped,
                    !.steps = @ + 1]
    /\ UNCHANGED engine_vars

\* Lines 147-152: history has no entry for the fact.
ExplainUnknown ==
    /\ Entering
    /\ ~visited(Top.fact, probe.printed)
    /\ Top.fact \notin DOMAIN probe.history
    /\ probe' = [probe EXCEPT
                    !.printed = @ \cup {Top.fact},
                    !.out = Append(@, Line(Top.indent, Top.fact,
                                           "Unknown source")),
                    !.stack = Popped,
                    !.steps = @ + 1]
    /\ UNCHANGED engine_vars

\* Lines 147-155: the entry is 'given'.
ExplainAsserted ==
    /\ Entering
    /\ ~visited(Top.fact, probe.printed)
    /\ Top.fact \in DOMAIN probe.history
    /\ probe.history[Top.fact].type = "given"
    /\ probe' = [probe EXCEPT
                    !.printed = @ \cup {Top.fact},
                    !.out = Append(@, Line(Top.indent, Top.fact, "asserted")),
                    !.stack = Popped,
                    !.steps = @ + 1]
    /\ UNCHANGED engine_vars

\* Lines 147-159: the entry is not 'given'; the three lines are printed and
\* the loop over data['supports'] begins.
ExplainInferred ==
    /\ Entering
    /\ ~visited(Top.fact, probe.printed)
    /\ Top.fact \in DOMAIN probe.history
    /\ probe.history[Top.fact].type # "given"
    /\ probe' = [probe EXCEPT
                    !.printed = @ \cup {Top.fact},
                    !.out = @ \o <<Line(Top.indent, Top.fact, "inferred by"),
                                   Line(Top.indent + 1, Top.fact, "Bindings"),
                                   Line(Top.indent + 1, Top.fact, "Supports")>>,
                    !.stack[Len(probe.stack)].i = 1,
                    !.steps = @ + 1]
    /\ UNCHANGED engine_vars

\* Lines 160-161: the call for the next support is made.
ExplainDescend ==
    /\ probe.kind = "explain"
    /\ Len(probe.stack) > 0
    /\ Top.i >= 1
    /\ Top.i <= Len(probe.history[Top.fact].supports)
    /\ probe' = [probe EXCEPT
                    !.stack = Append([@ EXCEPT ![Len(@)].i = Top.i + 1],
                                     Frame(probe.history[Top.fact]
                                              .supports[Top.i],
                                           Top.indent + 2, 0)),
                    !.steps = @ + 1]
    /\ UNCHANGED engine_vars

\* The loop of line 160 is over: the call returns.
ExplainReturn ==
    /\ probe.kind = "explain"
    /\ Len(probe.stack) > 0
    /\ Top.i >= 1
    /\ Top.i > Len(probe.history[Top.fact].supports)
    /\ probe' = [probe EXCEPT !.stack = Popped, !.steps = @ + 1]
    /\ UNCHANGED engine_vars

NextExplain ==
    \/ ExplainSeeAbove
    \/ ExplainUnknown
    \/ ExplainAsserted
    \/ ExplainInferred
    \/ ExplainDescend
    \/ ExplainReturn

SpecExplain == InitExplain /\ [][NextExplain]_vars

---------------------------------------------------------------------------
(* Properties *)

\* A step of call s that runs a cycle: it builds an agenda, then halts,
\* fires or raises.
CycleStep(s) ==
    /\ pc[s] = "loop"
    /\ step[s] < max_steps
    /\ (step'[s] # step[s] \/ pc'[s] # pc[s])

\* A step of call s that fires an activation.
FireStep(s) == pc[s] = "loop" /\ step'[s] = step[s] + 1

Keys(seq) == {seq[i].key : i \in 1..Len(seq)}

NoDuplicates(seq) ==
    \A i, j \in 1..Len(seq) : seq[i] = seq[j] => i = j

IsPrefix(a, b) ==
    /\ Len(a) <= Len(b)
    /\ \A i \in 1..Len(a) : a[i] = b[i]

Count(f, seq) == Cardinality({i \in 1..Len(seq) : seq[i] = f})

\* The facts the activation x asserts.
Consequents(x) ==
    {instantiate(x.rule.rhs[k], x.bindings) : k \in 1..Len(x.rule.rhs)}

\* C1 (refraction): the agenda a cycle builds holds no activation whose key
\* was fired in an earlier cycle of the run, the fired history never loses
\* a key, and no key is fired twice.
C1_Refraction ==
    [][\A s \in Sessions :
          /\ CycleStep(s) => Keys(agenda'[s]) \cap fired_history[s] = {}
          /\ pc[s] = "loop" => fired_history[s] \subseteq fired_history'[s]
          /\ NoDuplicates([i \in 1..Len(fired_seq'[s]) |->
                              fired_seq'[s][i].key])
          /\ fired_history'[s] = Keys(fired_seq'[s])]_vars

\* C1 witness: a later cycle has built a non-empty agenda although the
\* conditions of the activation fired first still match working memory.
C1_Witness ==
    \E s \in Sessions :
        /\ pc[s] = "loop"
        /\ step[s] >= 2
        /\ Len(agenda[s]) > 0
        /\ fired_seq[s][1].key
              \in Keys(new_activations_unfiltered(
                          fired_seq[s][1].rule, fired_seq[s][1].index,
                          wm[s], {}))
        /\ fired_seq[s][1].key \notin Keys(agenda[s])

\* C2 (idempotent assertion): a firing leaves every fact already in working
\* memory with the same number of occurrences and the same provenance
\* entry; if all its consequents are present, working memory and provenance
\* are unchanged; from a duplicate-free start, working memory never holds a
\* fact twice.
C2_IdempotentAssertion ==
    /\ [][\A s \in Sessions :
            FireStep(s) =>
              /\ \A f \in Range(wm[s]) :
                    /\ Count(f, wm'[s]) = Count(f, wm[s])
                    /\ provenance'[s][f] = provenance[s][f]
              /\ Consequents(selected'[s].item) \subseteq Range(wm[s])
                    => wm'[s] = wm[s] /\ provenance'[s] = provenance[s]]_vars
    /\ [](NoDuplicates(start_wm) => \A s \in Sessions : NoDuplicates(wm[s]))

\* C2 witness: the activation fired last concludes a fact that an earlier
\* firing of another rule had put into working memory.
C2_Witness ==
    \E s \in Sessions :
        /\ pc[s] = "loop"
        /\ step[s] >= 2
        /\ \E f \in Consequents(selected[s].item) :
              /\ provenance[s][f].type = "inferred"
              /\ provenance[s][f].rule # selected[s].item.rule.name

\* C3 (monotonicity): working memory at a cycle is a prefix of working
\* memory at the next one, and the initial facts are a prefix of working
\* memory, and of the working memory returned, in their original order.
C3_Monotonicity ==
    /\ [][\A s \in Sessions :
            pc[s] # "idle" => IsPrefix(wm[s], wm'[s])]_vars
    /\ [](\A s \in Sessions :
            /\ pc[s] # "idle" => IsPrefix(start_wm, wm[s])
            /\ result[s].kind = "returned" =>
                  IsPrefix(start_wm, result[s].wm))

\* C3 witness: a run has returned a working memory longer than the initial
\* fact list.
C3_Witness ==
    \E s \in Sessions :
        /\ result[s].kind = "returned"
        /\ Len(start_wm) > 0
        /\ Len(result[s].wm) > Len(start_wm) + 1

\* The variables of a list of patterns.
VarsOf(patterns) ==
    UNION { {patterns[k].args[i].name : i \in 1..Len(patterns[k].args)}
            : k \in 1..Len(patterns) }
    \cap VarNames

\* Every consequent variable of every rule is bound by the rule's antecedent.
WellFormed(rs) ==
    \A k \in 1..Len(rs) : VarsOf(rs[k].rhs) \subseteq VarsOf(rs[k].lhs)

\* C4 as claimed: with a rule base whose consequent variables are all bound
\* by the antecedents, the firing counter never reaches max_steps and the
\* loop is never left by its while condition.
C4_HaltsBeforeLimit ==
    \A s \in Sessions :
        (pc[s] # "idle" /\ WellFormed(rules[s]))
            => (step[s] < max_steps /\ left_by[s] # "while")

\* C4 amended: with such a rule base and a known strategy, every cycle
\* either leaves the loop and returns or fires an activation whose key is
\* new, so the counter is the number of distinct keys fired; the counter
\* never exceeds max_steps, which bounds the number of cycles; the loop is
\* left by the empty-agenda break before the counter reaches max_steps, or
\* by the while condition once max_steps distinct keys have fired.
C4_Termination ==
    /\ [][\A s \in Sessions :
            (pc[s] = "loop" /\ WellFormed(rules[s])
               /\ strategy[s] \in KnownStrategies) =>
              \/ pc'[s] = "returned"
              \/ /\ pc'[s] = "loop"
                 /\ step'[s] = step[s] + 1
                 /\ Cardinality(fired_history'[s]) = step'[s]
              \/ /\ pc'[s] = "loop"
                 /\ step'[s] = step[s]
                 /\ wm'[s] = wm[s]
                 /\ fired_history'[s] = fired_history[s]]_vars
    /\ [](\A s \in Sessions :
            (pc[s] # "idle" /\ WellFormed(rules[s])) =>
              /\ step[s] = Cardinality(fired_history[s])
              /\ step[s] <= max_steps
              /\ left_by[s] = "break" =>
                    step[s] < max_steps /\ Len(agenda[s]) = 0
              /\ left_by[s] = "while" => step[s] = max_steps
              /\ pc[s] = "returned" => left_by[s] \in {"break", "while"})

\* C4 witness: a run over a well-formed rule base has stopped at the
\* ceiling, having fired max_steps distinct keys.
C4_Witness ==
    \E s \in Sessions :
        /\ WellFormed(rules[s])
        /\ pc[s] = "returned"
        /\ left_by[s] = "while"
        /\ Cardinality(fired_history[s]) = max_steps

\* C5 as claimed: when the loop is left because the counter reached
\* max_steps, what run_ps hands back differs from what the empty-agenda
\* halt hands back, the pair (working memory, provenance).
C5_StepLimitDistinguished ==
    \A s \in Sessions :
        left_by[s] = "while" => result[s] # Returned(wm[s], provenance[s])

\* C6 as claimed: a call with an unknown strategy never returns a normal
\* result, fires no activation and asserts no fact.
C6_UnknownStrategyFailsFast ==
    \A s \in Sessions :
        (pc[s] # "idle" /\ strategy[s] \notin KnownStrategies) =>
            /\ result[s].kind # "returned"
            /\ fired_history[s] = {}
            /\ Len(fired_seq[s]) = 0
            /\ wm[s] = start_wm

\* a <= b in the lexicographic order of integer tuples of the same length.
LexLeq(a, b) ==
    \/ a = b
    \/ \E i \in 1..Len(a) :
          /\ a[i] < b[i]
          /\ \A j \in 1..(i - 1) : a[j] = b[j]

\* The tuple the strategy strat maximises, for agenda item x.
Rank(strat, x) ==
    IF strat = "priority"
    THEN <<x.rule.priority, Len(x.rule.lhs), 0 - x.index>>
    ELSE <<Len(x.rule.lhs), x.rule.priority, 0 - x.index>>

\* Call s has just fired the activation selected from agenda[s].
JustFired(s) == pc[s] = "loop" /\ step[s] > 0

\* C7 (priority and specificity): the item selected is in the agenda, no
\* item of the agenda has a greater tuple, and every item before it in the
\* agenda has a smaller one.
C7_MaxSelection ==
    \A s \in Sessions :
        (JustFired(s) /\ strategy[s] \in {"priority", "specificity"}) =>
            \E k \in 1..Len(agenda[s]) :
                /\ agenda[s][k] = selected[s].item
                /\ \A j \in 1..Len(agenda[s]) :
                      LexLeq(Rank(strategy[s], agenda[s][j]),
                             Rank(strategy[s], agenda[s][k]))
                /\ \A j \in 1..(k - 1) :
                      Rank(strategy[s], agenda[s][j])
                          # Rank(strategy[s], agenda[s][k])

\* C7 witness: under priority or specificity, two different items of the
\* agenda share the greatest tuple and a further item has a smaller one.
C7_Witness ==
    \E s \in Sessions :
        /\ JustFired(s)
        /\ strategy[s] \in {"priority", "specificity"}
        /\ \E i, j, l \in 1..Len(agenda[s]) :
              /\ i < j
              /\ agenda[s][i] = selected[s].item
              /\ agenda[s][i] # agenda[s][j]
              /\ Rank(strategy[s], agenda[s][i])
                    = Rank(strategy[s], agenda[s][j])
              /\ Rank(strategy[s], agenda[s][l])
                    # Rank(strategy[s], agenda[s][i])

\* C8 (order): the item selected belongs to the rule with the smallest
\* declaration index in the agenda, and it is the first item of that rule
\* in the agenda.
C8_OrderSelection ==
    \A s \in Sessions :
        (JustFired(s) /\ strategy[s] = "order") =>
            \E k \in 1..Len(agenda[s]) :
                /\ agenda[s][k] = selected[s].item
                /\ \A j \in 1..Len(agenda[s]) :
                      agenda[s][j].index >= agenda[s][k].index
                /\ \A j \in 1..(k - 1) :
                      agenda[s][j].index # agenda[s][k].index

\* C8 witness: under order, the rule selected has two matches in the
\* agenda, and a rule declared later has a higher priority and more
\* conditions.
C8_Witness ==
    \E s \in Sessions :
        /\ JustFired(s)
        /\ strategy[s] = "order"
        /\ \E i, j, l \in 1..Len(agenda[s]) :
              /\ i < j
              /\ agenda[s][i] = selected[s].item
              /\ agenda[s][j].index = agenda[s][i].index
              /\ agenda[s][j] # agenda[s][i]
              /\ agenda[s][l].rule.priority > agenda[s][i].rule.priority
              /\ Len(agenda[s][l].rule.lhs) > Len(agenda[s][i].rule.lhs)

\* The keys call s has fired, in order, each as the rule's declaration
\* index and the bindings.
FiredKeys(s) ==
    [i \in 1..Len(fired_seq[s]) |->
        <<fired_seq[s][i].index, fired_seq[s][i].bindings>>]

\* C9 (strategy determinism): two runs on the same facts, the same rule
\* list and the same strategy that have both returned have fired the same
\* sequence of keys and return the same working memory, in the same order,
\* and the same provenance.
C9_Determinism ==
    \A s, t \in Sessions :
        (/\ result[s].kind = "returned"
         /\ result[t].kind = "returned"
         /\ strategy[s] = strategy[t]) =>
            /\ FiredKeys(s) = FiredKeys(t)
            /\ result[s].wm = result[t].wm
            /\ result[s].provenance = result[t].provenance

\* C9 witness: two runs with the same strategy have returned after several
\* firings, the second having found the rule objects at other addresses.
C9_Witness ==
    /\ result[1].kind = "returned"
    /\ result[2].kind = "returned"
    /\ strategy[1] = strategy[2]
    /\ rules[1] # rules[2]
    /\ Len(fired_seq[1]) >= 3
    /\ Len(result[1].wm) > Len(start_wm)

\* The second test input of run_tests.
IsProvenanceTest == start_wm = wm_prov /\ rule_defs = provenance_rules

NeedsReviewBob == Fact2("needs-advisor-review", "Bob")

\* The rule the claim names for each strategy.
FirstCause(strat) ==
    IF strat = "priority" THEN "risk-from-probation"
    ELSE IF strat = "specificity" THEN "specific-risk-combo"
    ELSE "risk-from-credit-overload"

\* The agenda of the first cycle of call s.
FirstAgenda(s) == build_agenda(rules[s], start_wm, {}, 1)

\* The position in fired_seq[s] of the first firing that concludes f.
FirstProducer(s, f) ==
    CHOOSE i \in 1..Len(fired_seq[s]) :
        /\ f \in Consequents(fired_seq[s][i])
        /\ \A j \in 1..(i - 1) : f \notin Consequents(fired_seq[s][j])

\* C10 (strategies pick different causes): the provenance of an inferred
\* fact names the rule, bindings and supports of the first firing that
\* concluded it, whatever fired later; the first activation fired is one
\* the strategy ranks highest in the agenda of the first cycle; on the test
\* input the first rule fired and the recorded producer of
\* needs-advisor-review(Bob) is risk-from-probation under priority,
\* specific-risk-combo under specificity and risk-from-credit-overload under
\* order, and a run that has returned holds registration-hold(Bob).
C10_StrategyCauses ==
    \A s \in Sessions :
        /\ \A f \in DOMAIN provenance[s] :
              provenance[s][f].type = "inferred" =>
                  /\ \E i \in 1..Len(fired_seq[s]) :
                        f \in Consequents(fired_seq[s][i])
                  /\ provenance[s][f] =
                        inferred_entry(
                            fired_seq[s][FirstProducer(s, f)].rule,
                            fired_seq[s][FirstProducer(s, f)].bindings,
                            fired_seq[s][FirstProducer(s, f)].supports)
        /\ (strategy[s] \in KnownStrategies /\ step[s] >= 1) =>
              /\ fired_seq[s][1] \in Range(FirstAgenda(s))
              /\ \A x \in Range(FirstAgenda(s)) :
                    IF strategy[s] = "order"
                    THEN fired_seq[s][1].index <= x.index
                    ELSE LexLeq(Rank(strategy[s], x),
                                Rank(strategy[s], fired_seq[s][1]))
        /\ (IsProvenanceTest /\ strategy[s] \in KnownStrategies
              /\ step[s] >= 1) =>
              /\ fired_seq[s][1].rule.name = FirstCause(strategy[s])
              /\ provenance[s][NeedsReviewBob].type = "inferred"
              /\ provenance[s][NeedsReviewBob].rule = FirstCause(strategy[s])
        /\ (IsProvenanceTest /\ strategy[s] \in KnownStrategies
              /\ result[s].kind = "returned") =>
              /\ Fact2("registration-hold", "Bob") \in Range(result[s].wm)
              /\ result[s].provenance[NeedsReviewBob].rule
                    = FirstCause(strategy[s])

\* C10 witness: on the test input the priority run has returned after
\* firing risk-from-probation first and the three other rules that conclude
\* needs-advisor-review(Bob) after it.
C10_Witness ==
    \E s \in Sessions :
        /\ IsProvenanceTest
        /\ strategy[s] = "priority"
        /\ result[s].kind = "returned"
        /\ [i \in 1..Len(fired_seq[s]) |-> fired_seq[s][i].rule.name]
              = <<"risk-from-probation", "specific-risk-combo",
                  "risk-from-credit-overload", "risk-from-time-conflict",
                  "create-hold-after-review">>
        /\ result[s].provenance[NeedsReviewBob].rule = "risk-from-probation"

\* The single-rule scenario.
IsCarolScenario == start_wm = wm_carol /\ rule_defs = carol_rules

CannotEnrollCarol == Fact3("cannot-enroll-course", "Carol", "CS550")

\* C11 (single-rule scenario): on the scenario, under each of the three
\* strategies, the first cycle's agenda holds one activation; after it has
\* fired working memory is the two initial facts followed by
\* cannot-enroll-course(Carol, CS550); the next cycle's agenda is empty and
\* is followed by the return; the run is left by the empty-agenda break
\* after exactly one firing and raises nothing.
C11_SingleRuleScenario ==
    /\ [](\A s \in Sessions :
            (IsCarolScenario /\ strategy[s] \in KnownStrategies) =>
              /\ step[s] <= 1
              /\ Len(fired_seq[s]) = step[s]
              /\ pc[s] # "raised"
              /\ left_by[s] # "while"
              /\ step[s] = 0 => pc[s] = "loop" /\ wm[s] = start_wm
              /\ step[s] = 1 =>
                    /\ Len(wm[s]) = 3
                    /\ wm[s] = Append(start_wm, CannotEnrollCarol)
                    /\ fired_seq[s][1].rule.name
                          = "graduate-only-course-restriction"
                    /\ Len(cycle_agenda(s)) = 0
              /\ pc[s] = "returned" =>
                    /\ step[s] = 1
                    /\ left_by[s] = "break"
                    /\ Len(agenda[s]) = 0
                    /\ result[s].wm[3] = CannotEnrollCarol)
    /\ [][\A s \in Sessions :
            (IsCarolScenario /\ strategy[s] \in KnownStrategies
               /\ pc[s] = "loop" /\ pc'[s] = "loop") =>
              /\ step[s] = 0
              /\ step'[s] = 1
              /\ Len(agenda'[s]) = 1]_vars

\* C11 witness: on the scenario a run has returned after one firing with
\* cannot-enroll-course(Carol, CS550) as the third fact.
C11_Witness ==
    \E s \in Sessions :
        /\ IsCarolScenario
        /\ strategy[s] \in KnownStrategies
        /\ result[s].kind = "returned"
        /\ Len(fired_seq[s]) = 1
        /\ result[s].wm[3] = CannotEnrollCarol

\* Everything call s keeps: its locals, its position and its result.
SessionState(s) ==
    <<pc[s], strategy[s], rules[s], wm[s], fired_history[s], provenance[s],
      step[s], agenda[s], selected[s], fired_seq[s], left_by[s], result[s]>>

\* C12 (session independence): no step changes the fact list or the rule
\* list of the caller; a call starts with working memory equal to the
\* caller's facts, an empty fired history and a provenance that marks
\* exactly those facts as given, whatever another call has done before; a
\* step of one call leaves the state of every other call as it was.
C12_SessionIndependence ==
    [][/\ start_wm' = start_wm
       /\ rule_defs' = rule_defs
       /\ \A s \in Sessions :
             (pc[s] = "idle" /\ pc'[s] # "idle") =>
                /\ wm'[s] = start_wm
                /\ fired_history'[s] = {}
                /\ step'[s] = 0
                /\ provenance'[s] = [f \in Range(start_wm) |-> given_entry]
                /\ [i \in 1..Len(rules'[s]) |->
                       [rules'[s][i] EXCEPT !.obj = 0]]
                     = [i \in 1..Len(rule_defs) |->
                          [rule_defs[i] EXCEPT !.obj = 0]]
       /\ \A s, t \in Sessions :
             (s # t /\ SessionState(s)' # SessionState(s)) =>
                SessionState(t)' = SessionState(t)]_vars

\* C12 witness: the second call has just been entered, with the original
\* facts and an empty fired history, after the first call has fired an
\* activation and added a fact to its working memory.
C12_Witness ==
    /\ pc[1] = "loop"
    /\ step[1] >= 1
    /\ Len(wm[1]) > Len(start_wm)
    /\ pc[2] = "loop"
    /\ step[2] = 0
    /\ wm[2] = start_wm
    /\ fired_history[2] = {}
    /\ fired_history[1] # {}

\* unify(A, B, E) returns an environment.
Succeeds(A, B, E) == CallUnify(A, B, E).kind = "dict"

\* C13 (unification symmetry): in every environment the caller can reach
\* from the empty one by successful unifications, for all terms A and B,
\* unify(A, B, E) returns an environment exactly if unify(B, A, E) does.
C13_UnifySymmetry ==
    probe.kind = "unify" =>
        \A A, B \in Terms :
            Succeeds(A, B, probe.env) <=> Succeeds(B, A, probe.env)

\* C13 witness: in an environment that binds a variable to a tuple holding
\* a variable, a variable and a tuple unify in both orders, two tuples fail
\* in both orders, and two terms run into the recursion limit in both
\* orders.
C13_Witness ==
    /\ probe.kind = "unify"
    /\ \E v \in DOMAIN probe.env :
          /\ probe.env[v].tag = "tuple"
          /\ \E i \in 1..Len(probe.env[v].args) : is_var(probe.env[v].args[i])
    /\ \E A \in Variables, B \in FlatTuples :
          Succeeds(A, B, probe.env) /\ Succeeds(B, A, probe.env)
    /\ \E A, B \in FlatTuples :
          /\ CallUnify(A, B, probe.env).kind = "None"
          /\ CallUnify(B, A, probe.env).kind = "None"
    /\ \E A, B \in Terms :
          /\ CallUnify(A, B, probe.env).kind = "RecursionError"
          /\ CallUnify(B, A, probe.env).kind = "RecursionError"

\* The number of tuples of n positions in 1..m.
TupleCount(n, m) == IF n = 0 THEN 1 ELSE m ^ n

\* The j-th of them, from 0, in lexicographic order.
PositionTuple(j, n, m) == [i \in 1..n |-> ((j \div (m ^ (n - i))) % m) + 1]

\* Unifying c_i with f_i, for i, i + 1, ..., each in the environment the
\* one before returned.
RECURSIVE ThreadUnify(_, _, _, _)
ThreadUnify(lhs, facts, i, b) ==
    IF i > Len(lhs) THEN b
    ELSE ThreadUnify(lhs, facts, i + 1, unify(lhs[i], facts[i], b))

\* One pair for each tuple of facts of mem that satisfies lhs, the tuples
\* taken in lexicographic order of their positions.
SatisfyingTuples(lhs, mem) ==
    LET n == Len(lhs)
        m == Len(mem)
        facts(j) == [i \in 1..n |-> mem[PositionTuple(j, n, m)[i]]]
        all == [j \in 1..TupleCount(n, m) |->
                   [b |-> ThreadUnify(lhs, facts(j - 1), 1, Some(EmptyDict)),
                    supports |-> facts(j - 1)]]
        good(x) == ~x.b.none
        sel == SelectSeq(all, good)
    IN  [k \in 1..Len(sel) |->
            [bindings |-> sel[k].b.env, supports |-> sel[k].supports]]

\* C14 (matcher completeness and order): for every rule of the rule base
\* and the working memory of every cycle, match_rules returns exactly the
\* pairs (bindings, supports) of the fact tuples, repetition allowed, that
\* satisfy the conditions threaded left to right from the empty
\* environment, in lexicographic order of working-memory positions; for an
\* empty condition list it returns one pair, with no binding and no support.
C14_MatcherComplete ==
    \A s \in Sessions :
        /\ pc[s] # "idle" =>
              \A k \in 1..Len(rules[s]) :
                  match_rules(rules[s][k].lhs, wm[s], EmptyDict, <<>>)
                      = SatisfyingTuples(rules[s][k].lhs, wm[s])
        /\ match_rules(<<>>, wm[s], EmptyDict, <<>>)
              = << [bindings |-> EmptyDict, supports |-> <<>>] >>

\* C14 witness: a rule with several conditions has several matches, fewer
\* than there are fact tuples, and one of them is supported by the same fact
\* twice.
C14_Witness ==
    \E s \in Sessions :
        /\ pc[s] = "loop"
        /\ \E k \in 1..Len(rules[s]) :
              \E ms \in {match_rules(rules[s][k].lhs, wm[s], EmptyDict, <<>>)} :
                 /\ Len(rules[s][k].lhs) >= 2
                 /\ Len(ms) >= 2
                 /\ Len(ms) < TupleCount(Len(rules[s][k].lhs), Len(wm[s]))
                 /\ \E j \in 1..Len(ms) :
                       ms[j].supports[1] = ms[j].supports[2]

\* d holds every binding of E, with the same value.
Extends(d, E) ==
    \A v \in DOMAIN E : v \in DOMAIN d /\ d[v] = E[v]

\* C15 (unifier leaves its input environment intact): for every environment
\* E the caller can reach and all terms A and B, after unify(A, B, E) the
\* dict the caller passed holds the same items as before, whether unify
\* returned an environment, returned None or raised; an environment
\* returned holds every binding of E with the same value; so a caller that
\* tries one fact after another in E passes the same bindings each time,
\* and, unless unify raises, what it returns is what unify computed on the
\* dict's items alone returns.
C15_InputEnvIntact ==
    probe.kind = "unify" =>
        \A A, B \in Terms :
            \E r \in {CallUnify(A, B, probe.env)} :
                /\ r.heap[1] = probe.env
                /\ r.kind = "dict" => Extends(r.heap[r.ref], probe.env)
                /\ r.kind = "dict" =>
                      unify(A, B, Some(probe.env)) = Some(r.heap[r.ref])
                /\ r.kind = "None" => unify(A, B, Some(probe.env)) = None

\* C15 witness: in an environment with a binding, one compound fails after
\* an element has been bound in a copy, and another call returns an
\* environment with one binding more.
C15_Witness ==
    /\ probe.kind = "unify"
    /\ probe.env # EmptyDict
    /\ \E A, B \in FlatTuples :
          \E r \in {CallUnify(A, B, probe.env)} :
             /\ r.kind = "None"
             /\ \E o \in 2..Len(r.heap) :
                   DOMAIN r.heap[o] # DOMAIN probe.env
             /\ r.heap[1] = probe.env
    /\ \E A, B \in Terms :
          \E r \in {CallUnify(A, B, probe.env)} :
             /\ r.kind = "dict"
             /\ r.ref # 1
             /\ DOMAIN r.heap[r.ref] # DOMAIN probe.env

\* The firing at position i of fired_seq[s] is the one that put fact f into
\* working memory.
Produced(s, i, f) ==
    /\ f \in Consequents(fired_seq[s][i])
    /\ f \in DOMAIN provenance[s]
    /\ provenance[s][f].type = "inferred"
    /\ FirstProducer(s, f) = i

\* C16 (a firing that adds nothing does not halt the run): a firing whose
\* consequents are all in working memory adds its key, which was not there,
\* to the fired history, advances the counter by one, leaves working memory
\* and provenance as they were and leaves the call in the loop with nothing
\* returned; the loop is left by the break only in a cycle whose agenda is
\* empty.
C16_NoAdditionNoHalt ==
    [][\A s \in Sessions :
          /\ (FireStep(s)
                /\ Consequents(selected'[s].item) \subseteq Range(wm[s])) =>
                /\ selected'[s].item.key \notin fired_history[s]
                /\ fired_history'[s]
                      = fired_history[s] \cup {selected'[s].item.key}
                /\ step'[s] = step[s] + 1
                /\ wm'[s] = wm[s]
                /\ provenance'[s] = provenance[s]
                /\ pc'[s] = "loop"
                /\ result'[s] = result[s]
                /\ result[s].kind = "none"
          /\ (pc[s] = "loop" /\ left_by'[s] = "break") =>
                /\ Len(cycle_agenda(s)) = 0
                /\ Len(agenda'[s]) = 0
                /\ pc'[s] = "returned"]_vars

\* C16 witness: a run has returned by the break after a firing that added
\* nothing was followed by a firing that added a fact.
C16_Witness ==
    \E s \in Sessions :
        /\ pc[s] = "returned"
        /\ left_by[s] = "break"
        /\ \E i, j \in 1..Len(fired_seq[s]) :
              /\ i < j
              /\ \A f \in Consequents(fired_seq[s][i]) : ~Produced(s, i, f)
              /\ \E f \in Consequents(fired_seq[s][j]) : Produced(s, j, f)

\* The texts of the lines that render a fact itself, not a reference to it.
Renderings == {"inferred by", "asserted", "Unknown source"}

\* The positions in probe.out of the renderings of fact f.
RenderedAt(f) ==
    {i \in 1..Len(probe.out) :
        probe.out[i].fact = f /\ probe.out[i].text \in Renderings}

\* A bound on the steps of print_explanation on history h: one call for the
\* query and one for each support of each inferred fact, each call one step
\* to begin, and each inferred fact one step for each support and one to
\* return.
StepBound(h) ==
    (1 + SumSupports(h, InferredIn(h)))
    + SumSupports(h, InferredIn(h)) + Cardinality(InferredIn(h))

\* C17 (explanation traversal is guarded): for every provenance map over
\* the facts, with shared, missing or cyclic supports, and every query,
\* print_explanation takes a bounded number of steps, after each of which,
\* unless all calls have returned, a further step is possible; each fact is
\* rendered at most once; a "see above" line of a fact follows a rendering
\* of it; a fact is rendered "asserted" only if its entry is 'given' and
\* "Unknown source" only if it has no entry; and the line after a "see
\* above", "asserted" or "Unknown source" line is not indented deeper.
C17_ExplanationGuarded ==
    probe.kind = "explain" =>
        /\ probe.steps <= StepBound(probe.history)
        /\ Len(probe.stack) <= Cardinality(probe.printed) + 1
        /\ Len(probe.stack) > 0 => ENABLED NextExplain
        /\ \A f \in ExplainFacts : Cardinality(RenderedAt(f)) <= 1
        /\ \A i \in 1..Len(probe.out) :
              LET l == probe.out[i]
              IN  /\ l.text = "see above" =>
                        \E j \in RenderedAt(l.fact) : j < i
                  /\ l.text = "asserted" =>
                        /\ l.fact \in DOMAIN probe.history
                        /\ probe.history[l.fact].type = "given"
                  /\ l.text = "Unknown source" =>
                        l.fact \notin DOMAIN probe.history
                  /\ l.text = "inferred by" =>
                        l.fact \in InferredIn(probe.history)
                  /\ (l.text \in {"see above", "asserted", "Unknown source"}
                        /\ i < Len(probe.out)) =>
                        probe.out[i + 1].indent <= l.indent
        /\ Len(probe.stack) = 0 =>
              /\ probe.query \in probe.printed
              /\ probe.out[1].fact = probe.query
              /\ probe.out[1].indent = 0
              /\ probe.out[1].text # "see above"

\* C17 witness: all calls have returned on a map in which the query
\* supports itself through another fact and a fact without an entry is a
\* support twice: the query has a "see above" line and the fact without
\* entry an "Unknown source" line and later a "see above" line.
C17_Witness ==
    /\ probe.kind = "explain"
    /\ Len(probe.stack) = 0
    /\ \E i \in 1..Len(probe.out) :
          /\ probe.out[i].fact = probe.query
          /\ probe.out[i].text = "see above"
          /\ probe.out[i].indent = 4
    /\ \E i, j \in 1..Len(probe.out) :
          /\ i < j
          /\ probe.out[i].fact = probe.out[j].fact
          /\ probe.out[i].text = "Unknown source"
          /\ probe.out[j].text = "see above"

\* Fact f is the template pattern with each variable that b binds replaced
\* by its value and every other element, a variable that b does not bind
\* included, left as it is.
FilledFrom(f, pattern, b) ==
    /\ f.tag = "tuple"
    /\ Len(f.args) = Len(pattern.args)
    /\ \A i \in 1..Len(pattern.args) :
          LET term == pattern.args[i]
          IN  IF term.tag = "str" /\ term.name \in VarNames
                    /\ term.name \in DOMAIN b
              THEN f.args[i] = b[term.name]
              ELSE f.args[i] = term

\* The variables that occur in fact f.
TokensIn(f) == {f.args[i].name : i \in 1..Len(f.args)} \cap VarNames

\* C18 (unbound consequent variables pass through literally): after a
\* firing, for each consequent template of the fired rule, working memory
\* holds the template with the bound variables replaced and the unbound
\* ones left in place as tokens; if that fact was not in working memory
\* before, it is appended after the facts that were and its provenance
\* entry is 'inferred' by the fired rule with the activation's bindings and
\* supports; the call stays in the loop and nothing is raised.
C18_UnboundPassThrough ==
    [][\A s \in Sessions :
          FireStep(s) =>
             /\ pc'[s] = "loop"
             /\ result'[s].kind = "none"
             /\ \A k \in 1..Len(selected'[s].item.rule.rhs) :
                   \E n \in 1..Len(wm'[s]) :
                      /\ FilledFrom(wm'[s][n],
                                    selected'[s].item.rule.rhs[k],
                                    selected'[s].item.bindings)
                      /\ wm'[s][n] \in DOMAIN provenance'[s]
                      /\ wm'[s][n] \notin Range(wm[s]) =>
                            /\ n > Len(wm[s])
                            /\ provenance'[s][wm'[s][n]]
                                  = inferred_entry(
                                        selected'[s].item.rule,
                                        selected'[s].item.bindings,
                                        selected'[s].item.supports)]_vars

\* C18 witness: a run under a known strategy has returned a working memory
\* that holds a fact with a variable token in it, inferred by a rule whose
\* antecedent does not bind that variable.
C18_Witness ==
    \E s \in Sessions :
        /\ result[s].kind = "returned"
        /\ strategy[s] \in KnownStrategies
        /\ \E n \in 1..Len(result[s].wm) :
              LET f == result[s].wm[n]
              IN  /\ TokensIn(f) # {}
                  /\ n > Len(start_wm)
                  /\ result[s].provenance[f].type = "inferred"
                  /\ \E x \in Range(fired_seq[s]) :
                        /\ x.rule.name = result[s].provenance[f].rule
                        /\ TokensIn(f) \cap DOMAIN x.bindings = {}
                        /\ TokensIn(f) \subseteq VarsOf(x.rule.rhs)

\* The matches of rule r against the working memory mem.
MatchesOf(r, mem) == match_rules(r.lhs, mem, EmptyDict, <<>>)

\* C19 (saturation at normal halt): when a run has left the loop by the
\* empty-agenda break, for every rule of the rule base and every match of
\* its conditions against the working memory returned, the match's
\* activation key is in the fired history and each consequent of the rule
\* instantiated under the match's bindings is in that working memory.
C19_Saturation ==
    \A s \in Sessions :
        left_by[s] = "break" =>
            /\ result[s].kind = "returned"
            /\ result[s].wm = wm[s]
            /\ \A k \in 1..Len(rules[s]) :
                  \A m \in Range(MatchesOf(rules[s][k], result[s].wm)) :
                     /\ get_activation_key(rules[s][k], m.bindings)
                           \in fired_history[s]
                     /\ \A j \in 1..Len(rules[s][k].rhs) :
                           instantiate(rules[s][k].rhs[j], m.bindings)
                              \in Range(result[s].wm)

\* C19 witness: a run has halted on an empty agenda with a rule that has
\* two matches with different bindings against the final working memory,
\* and a rule one of whose conditions is matched by an inferred fact.
C19_Witness ==
    \E s \in Sessions :
        /\ left_by[s] = "break"
        /\ \E k \in 1..Len(rules[s]) :
              \E m1, m2 \in Range(MatchesOf(rules[s][k], result[s].wm)) :
                 m1.bindings # m2.bindings
        /\ \E k \in 1..Len(rules[s]) :
              \E m \in Range(MatchesOf(rules[s][k], result[s].wm)) :
                 \E f \in Range(m.supports) :
                    result[s].provenance[f].type = "inferred"

\* The position at which fact f first stands in the list mem.
FirstPos(mem, f) ==
    CHOOSE i \in 1..Len(mem) :
        mem[i] = f /\ \A j \in 1..(i - 1) : mem[j] # f

\* The parts of the claim about provenance that hold for every rule base:
\* the map has an entry for exactly the facts in working memory; the
\* initial facts are 'given'; every other fact is 'inferred', by a rule of
\* the rule base with as many conditions as the entry has supports, and its
\* supports stand in working memory before it.
ProvenanceTotalAndOrdered(s) ==
    /\ DOMAIN provenance[s] = Range(wm[s])
    /\ \A f \in Range(start_wm) : provenance[s][f] = given_entry
    /\ \A n \in 1..Len(wm[s]) :
          LET f == wm[s][n]
              e == provenance[s][f]
          IN  f \notin Range(start_wm) =>
                 /\ e.type = "inferred"
                 /\ \E k \in 1..Len(rules[s]) :
                       /\ rules[s][k].name = e.rule
                       /\ Len(rules[s][k].lhs) = Len(e.supports)
                 /\ \A g \in Range(e.supports) :
                       /\ g \in Range(wm[s])
                       /\ FirstPos(wm[s], g) < FirstPos(wm[s], f)

\* C20 as claimed: in every state of a run the above holds and following
\* supports ends in given facts: a fact that has no supports to follow is
\* 'given'.
C20_EndsInGivenFacts ==
    \A s \in Sessions :
        pc[s] # "idle" =>
            /\ ProvenanceTotalAndOrdered(s)
            /\ \A f \in DOMAIN provenance[s] :
                  Len(provenance[s][f].supports) = 0 =>
                      provenance[s][f].type = "given"

\* C20 amended: in every state of a run the provenance map has an entry
\* for exactly the facts in working memory; initial facts are 'given' and
\* no step changes an entry; every other fact is 'inferred' by a rule of
\* the rule base, with one support for each condition of that rule, each
\* support standing in working memory before the fact, so that following
\* supports never cycles; a fact that has no supports to follow is 'given'
\* or was inferred by a rule that has no conditions.
C20_ProvenanceWellFounded ==
    /\ [](\A s \in Sessions :
            pc[s] # "idle" =>
               /\ ProvenanceTotalAndOrdered(s)
               /\ \A f \in DOMAIN provenance[s] :
                     Len(provenance[s][f].supports) = 0 =>
                        \/ provenance[s][f].type = "given"
                        \/ \E k \in 1..Len(rules[s]) :
                              /\ rules[s][k].name = provenance[s][f].rule
                              /\ Len(rules[s][k].lhs) = 0)
    /\ [][\A s \in Sessions :
            pc[s] # "idle" =>
               \A f \in DOMAIN provenance[s] :
                  /\ f \in DOMAIN provenance'[s]
                  /\ provenance'[s][f] = provenance[s][f]]_vars

\* C20 witness: a run has returned a working memory with a fact inferred
\* without supports by a rule that has no conditions and a fact inferred
\* from two given facts.
C20_Witness ==
    \E s \in Sessions :
        /\ result[s].kind = "returned"
        /\ \E f, g \in Range(result[s].wm) :
              /\ result[s].provenance[f].type = "inferred"
              /\ Len(result[s].provenance[f].supports) = 0
              /\ result[s].provenance[g].type = "inferred"
              /\ Len(result[s].provenance[g].supports) = 2
              /\ \A h \in Range(result[s].provenance[g].supports) :
                    result[s].provenance[h].type = "given"

===========================================================================
